---- MODULE Spec2Model ----
(***************************************************************************)
(* Model of rocketwatch/utils/rocketpool.py: the RocketPool resolver, its  *)
(* three FIFO caches (cachetools.cached over FIFOCache), the bidict name   *)
(* <-> address registry and flush().                                       *)
(*                                                                         *)
(* Spec      sequential use: every handler runs to completion as one step. *)
(* ConcSpec  two threads running the handlers statement by statement; the  *)
(*           source takes no lock anywhere.                                *)
(***************************************************************************)
EXTENDS Integers, Sequences, FiniteSets, TLC

\* ------------------------------------------------------------------ bounds
\* FIFOCache(maxsize=2048), scaled down so that eviction happens
MaxSize == 2
\* addresses are 1..MaxAddr; 0 is the zero address
MaxAddr == 3
\* Python's recursion limit (1000 frames), scaled down
RecursionLimit == 12

\* ------------------------------------------------------------ value spaces
StorageName == "rocketStorage"
Names == {StorageName, "a", "b"}
ChainNames == Names \ {StorageName}
Addresses == 1..MaxAddr
\* the name get_name_by_address yields for an unknown address (Python None)
NoName == "None"
\* the address get_function receives when the caller passes none (None)
NoAddress == -1

NoAbi == [src |-> "none", nm |-> "", id |-> 0]

\* cfg["rocketpool.manual_addresses"] (an ordered dict) paired with the set of
\* names that have a non-empty ./contracts/<name>.abi.json
Configs ==
    { [manual |-> <<<<StorageName, 1>>>>,              files |-> {StorageName}],
      [manual |-> <<<<StorageName, 1>>, <<"a", 3>>>>,  files |-> {StorageName, "a"}],
      [manual |-> <<>>,                                files |-> {StorageName}],
      [manual |-> <<<<StorageName, 1>>>>,              files |-> {}] }

VARIABLES
    ADDRESS_CACHE,    \* FIFOCache: sequence of [k, v], oldest first; k = name
    ABI_CACHE,        \* FIFOCache: k = name, v = abi
    CONTRACT_CACHE,   \* FIFOCache: k = the positional arguments, v = handle
    addresses,        \* bidict: [fwd |-> name -> address, inv |-> address -> name]
    multicall,        \* "None" or "Multicall"
    cfg,              \* the configuration, an element of Configs
    chainAddr,        \* rocketStorage.getAddress(sha3("contract.address", n))
    returned,         \* name -> addresses get_address_by_name returned since the last flush
    looked,           \* names whose address was read from the chain since the last flush
    reread,           \* names read from the chain after a call had returned their address
    stale,            \* names resolved before the last flush and not requested since
    pc,               \* thread -> position in its handler (ConcSpec)
    loc,              \* thread -> locals of its handler (ConcSpec)
    obs               \* the structures holding an address read before the last flush (ConcSpec)

vars == <<ADDRESS_CACHE, ABI_CACHE, CONTRACT_CACHE, addresses, multicall, cfg,
          chainAddr, returned, looked, reread, stale,
          pc, loc, obs>>

progVars == <<ADDRESS_CACHE, ABI_CACHE, CONTRACT_CACHE, addresses, multicall>>
envVars == <<cfg, chainAddr>>
ghostVars == <<returned, looked, reread, stale>>
threadVars == <<pc, loc, obs>>

\* ------------------------------------------------------------- small helpers
Range(f) == {f[i] : i \in DOMAIN f}
EmptyMap == [x \in {} |-> 0]
Without(f, k) == [x \in DOMAIN f \ {k} |-> f[x]]
ManualNames(m) == {m[i][1] : i \in DOMAIN m}
ManualMap(m) == [n \in ManualNames(m) |-> (CHOOSE p \in Range(m) : p[1] = n)[2]]

\* ------------------------------------------------------- cachetools.FIFOCache
CacheHas(c, k) == \E i \in DOMAIN c : c[i].k = k
CacheVal(c, k) == c[CHOOSE i \in DOMAIN c : c[i].k = k].v
CacheDrop(c, k) == SelectSeq(c, LAMBDA e : e.k # k)

\* a full cache that gives up its newest key instead of its oldest
CachePut_EvictsNewest(c, k, v) ==
    IF CacheHas(c, k)
    THEN Append(CacheDrop(c, k), [k |-> k, v |-> v])
    ELSE Append(IF Len(c) >= MaxSize THEN SubSeq(c, 1, Len(c) - 1) ELSE c,
                [k |-> k, v |-> v])

\* FIFOCache.__setitem__: Cache.__setitem__ pops the oldest key while the
\* cache is full and the key is new, then the key moves to the end of the order
CachePut(c, k, v) ==
    IF CacheHas(c, k)
    THEN Append(CacheDrop(c, k), [k |-> k, v |-> v])
    ELSE Append(IF Len(c) >= MaxSize THEN Tail(c) ELSE c, [k |-> k, v |-> v])

\* a key that leaves out the network flag
hashkey_IgnoresNetwork(args) == IF Len(args) >= 3 THEN SubSeq(args, 1, 2) ELSE args

\* cachetools.keys.hashkey(*args): the bound self is the one rp instance, so the
\* key is the tuple of the positional arguments as the caller passed them
hashkey(args) == args

\* ------------------------------------------------------------------- bidict
EmptyBidict == [fwd |-> EmptyMap, inv |-> EmptyMap]
\* a membership test that only knows the seeded storage entry
RegistryHas_OnlyStorage(reg, name) == name \in DOMAIN reg.fwd /\ name = "rocketStorage"
RegistryHas(reg, name) == name \in DOMAIN reg.fwd

\* a plain two-dict insertion that neither raises nor drops the other name
RegistrySet_NoDupCheck(reg, name, address) ==
    [ok |-> TRUE,
     reg |-> [fwd |-> (name :> address) @@ reg.fwd,
              inv |-> (address :> name) @@ reg.inv]]

\* bidict.__setitem__ with the default duplication policy: the same item is a
\* no-op, a value held by another key raises and changes nothing, a key with
\* another value has its old item dropped
RegistrySet(reg, name, address) ==
    IF name \in DOMAIN reg.fwd /\ reg.fwd[name] = address
    THEN [ok |-> TRUE, reg |-> reg]
    ELSE IF address \in DOMAIN reg.inv
    THEN [ok |-> FALSE, reg |-> reg]
    ELSE LET inv0 == IF name \in DOMAIN reg.fwd
                     THEN Without(reg.inv, reg.fwd[name]) ELSE reg.inv
         IN [ok |-> TRUE,
             reg |-> [fwd |-> (name :> address) @@ reg.fwd,
                      inv |-> (address :> name) @@ inv0]]

\* self.addresses.inverse.get(address, None)
get_name_by_address(reg, address) ==
    IF address \in DOMAIN reg.inv THEN reg.inv[address] ELSE NoName

\* ------------------------------------------------------------ the chain side
\* w3.soliditySha3(["string", "string"], [kind, name]): the storage key
soliditySha3(kind, name) == <<kind, name>>
\* rocketStorage.functions.getAddress(sha3).call()
StorageGetAddress(key) ==
    IF key[1] = "contract.address" /\ key[2] \in DOMAIN chainAddr
    THEN chainAddr[key[2]] ELSE 0
\* rocketStorage.functions.getString(sha3).call()
\* the stored compressed ABI strings; 0 is the empty string
ChainAbi == [n \in Names |-> IF n = "b" THEN 0 ELSE 1]
StorageGetString(key) ==
    IF key[1] = "contract.abi" /\ key[2] \in DOMAIN ChainAbi
    THEN ChainAbi[key[2]] ELSE 0
\* not w3.toInt(hexstr=address)
IsZeroAddress(address) == address = 0
\* utils.readable.decode_abi: the structured form of a non-empty stored string
decode_abi(compressed_string) == [src |-> "chain", nm |-> "", id |-> compressed_string]
\* the text of ./contracts/<name>.abi.json, NoAbi when there is no such file
LocalAbi(name) ==
    IF name \in cfg.files THEN [src |-> "file", nm |-> name, id |-> 0] ELSE NoAbi
\* w3.eth.contract / mainnet_w3.eth.contract
EthContract(address, abi, mainnet) ==
    [address |-> address, abi |-> abi, net |-> IF mainnet THEN "mainnet" ELSE "primary"]

\* ------------------------------------------------------------ the resolver
\* A resolver state s holds the caches and the registry, and the chain calls,
\* registry writes and handle constructions made so far by the running call.
Ok(s, v) == [s |-> s, ok |-> TRUE, v |-> v, err |-> "none"]
Err(s, e) == [s |-> s, ok |-> FALSE, v |-> 0, err |-> e]

\* the running call's record that get_address_by_name(name) returned address,
\* or raised
Returned(s, name, address) == [s EXCEPT !.rets = Append(@, <<name, address>>)]
Failed(r, name) == [r EXCEPT !.s.fails = Append(@, name)]

\* The part of each function that follows its nested call takes the outcome r
\* (or c) of that call: the value returned with the state it left, or the
\* exception raised.

\* cache[k] = v of the decorator of get_address_by_name, and its return
store_address(r, name) ==
    IF r.ok
    THEN Ok(Returned([r.s EXCEPT !.ac = CachePut(@, hashkey(<<name>>), r.v)], name, r.v),
            r.v)
    ELSE Failed(r, name)

\* the registry write placed before the zero check
getAddress_WriteFirst(c, name) ==
    IF ~c.ok THEN c
    ELSE LET address == StorageGetAddress(soliditySha3("contract.address", name))
             w == RegistrySet(c.s.reg, name, address)
             s1 == [c.s EXCEPT !.getAddress = Append(@, name), !.reg = w.reg]
         IN IF ~w.ok THEN Err(s1, "ValueDuplicationError")
            ELSE IF IsZeroAddress(address) THEN Err(s1, "NotFound")
            ELSE Ok([s1 EXCEPT !.written = Append(@, name)], address)

\* a lookup that returns the address without registering it
getAddress_NoWrite(c, name) ==
    IF ~c.ok THEN c
    ELSE LET address == StorageGetAddress(soliditySha3("contract.address", name))
             s1 == [c.s EXCEPT !.getAddress = Append(@, name)]
         IN IF IsZeroAddress(address) THEN Err(s1, "NotFound")
            ELSE Ok(s1, address)

\* c.functions.getAddress(sha3).call(), the zero check and the registry write
getAddress(c, name) ==
    IF ~c.ok THEN c
    ELSE LET sha3 == soliditySha3("contract.address", name)
             address == StorageGetAddress(sha3)
             s1 == [c.s EXCEPT !.getAddress = Append(@, name)]
         IN IF IsZeroAddress(address) THEN Err(s1, "NotFound")
            ELSE LET w == RegistrySet(s1.reg, name, address)
                 IN IF ~w.ok THEN Err(s1, "ValueDuplicationError")
                    ELSE Ok([s1 EXCEPT !.reg = w.reg, !.written = Append(@, name)],
                            address)

\* cache[k] = v of the decorator of get_abi_by_name, and its return
store_abi(r, name) ==
    IF r.ok
    THEN Ok([r.s EXCEPT !.bc = CachePut(@, hashkey(<<name>>), r.v)], r.v)
    ELSE r

\* c.functions.getString(sha3).call() and decode_abi
getString(c, name) ==
    IF ~c.ok THEN c
    ELSE LET sha3 == soliditySha3("contract.abi", name)
             compressed_string == StorageGetString(sha3)
             s1 == [c.s EXCEPT !.getString = Append(@, name)]
         IN IF compressed_string = 0 THEN Err(s1, "NotFound")
            ELSE Ok(s1, decode_abi(compressed_string))

\* the handle bound to the ABI r.v, and cache[k] = v of the decorator of
\* assemble_contract; args are the positional arguments of the call,
\* <<name, address>> or <<name, address, mainnet>>; mainnet defaults to False
bind_contract(r, args) ==
    IF ~r.ok THEN r
    ELSE LET address == args[2]
             mainnet == IF Len(args) >= 3 THEN args[3] ELSE FALSE
             h == EthContract(address, r.v, mainnet)
         IN Ok([r.s EXCEPT !.cc = CachePut(@, hashkey(args), h),
                           !.built = Append(@, hashkey(args))],
               h)

RECURSIVE get_address_by_name(_, _, _)
RECURSIVE uncached_get_address_by_name(_, _, _)
RECURSIVE get_abi_by_name(_, _, _)
RECURSIVE uncached_get_abi_by_name(_, _, _)
RECURSIVE assemble_contract(_, _, _)
RECURSIVE get_contract_by_name(_, _, _)

\* a resolution that asks the chain before it looks into the registry
get_address_by_name_ChainFirst(s, name, d) ==
    IF d = 0 THEN Err(s, "RecursionError")
    ELSE IF CacheHas(s.ac, hashkey(<<name>>))
    THEN Ok(Returned(s, name, CacheVal(s.ac, hashkey(<<name>>))),
            CacheVal(s.ac, hashkey(<<name>>)))
    ELSE store_address(IF name = StorageName /\ RegistryHas(s.reg, name)
                       THEN Ok(s, s.reg.fwd[name])
                       ELSE uncached_get_address_by_name(s, name, d - 1),
                       name)

\* d is the number of frames left before Python raises RecursionError
get_address_by_name(s, name, d) ==
    IF d = 0 THEN Err(s, "RecursionError")
    ELSE IF CacheHas(s.ac, hashkey(<<name>>))
    THEN Ok(Returned(s, name, CacheVal(s.ac, hashkey(<<name>>))),
            CacheVal(s.ac, hashkey(<<name>>)))
    ELSE store_address(IF RegistryHas(s.reg, name)
                       THEN Ok(s, s.reg.fwd[name])
                       ELSE uncached_get_address_by_name(s, name, d - 1),
                       name)

uncached_get_address_by_name(s, name, d) ==
    IF d = 0 THEN Err(s, "RecursionError")
    ELSE getAddress(get_contract_by_name(s, StorageName, d - 1), name)

get_abi_by_name(s, name, d) ==
    IF d = 0 THEN Err(s, "RecursionError")
    ELSE IF CacheHas(s.bc, hashkey(<<name>>))
    THEN Ok(s, CacheVal(s.bc, hashkey(<<name>>)))
    ELSE store_abi(uncached_get_abi_by_name(s, name, d - 1), name)

\* soliditySha3 of a name that is None raises TypeError
uncached_get_abi_by_name(s, name, d) ==
    IF d = 0 THEN Err(s, "RecursionError")
    ELSE IF name = NoName THEN Err(s, "TypeError")
    ELSE getString(get_contract_by_name(s, StorageName, d - 1), name)

assemble_contract(s, args, d) ==
    IF d = 0 THEN Err(s, "RecursionError")
    ELSE IF CacheHas(s.cc, hashkey(args))
    THEN Ok(s, CacheVal(s.cc, hashkey(args)))
    ELSE bind_contract(IF LocalAbi(args[1]) # NoAbi
                       THEN Ok(s, LocalAbi(args[1]))
                       ELSE get_abi_by_name(s, args[1], d - 1),
                       args)

get_contract_by_name(s, name, d) ==
    IF d = 0 THEN Err(s, "RecursionError")
    ELSE LET a == get_address_by_name(s, name, d - 1)
         IN IF ~a.ok THEN a
            ELSE assemble_contract(a.s, <<name, a.v>>, d - 1)

get_contract_by_address(s, address, d) ==
    assemble_contract(s, <<get_name_by_address(s.reg, address), address>>, d - 1)

\* A path is a sequence of tokens: "." or a maximal run of other characters.
Dots(path) == {i \in DOMAIN path : path[i] = "."}
Run(tokens) == IF tokens = <<>> THEN "" ELSE tokens[1]
RECURSIVE split(_)
\* a split at the first "." only
split_FirstDot(path) ==
    IF Dots(path) = {} THEN <<Run(path)>>
    ELSE LET i == CHOOSE j \in Dots(path) : \A k \in Dots(path) : j <= k
         IN <<Run(SubSeq(path, 1, i - 1)), Run(SubSeq(path, i + 1, Len(path)))>>

\* path.split(".")
split(path) ==
    IF Dots(path) = {} THEN <<Run(path)>>
    ELSE LET i == CHOOSE j \in Dots(path) : \A k \in Dots(path) : j <= k
         IN <<Run(SubSeq(path, 1, i - 1))>> \o split(SubSeq(path, i + 1, Len(path)))

\* contract.functions[function] on the handle c.v: no ABI has a function with
\* the empty name, and web3 raises ABIFunctionNotFound for it
functions(c, function) ==
    IF ~c.ok THEN c
    ELSE IF function = "" THEN Err(c.s, "ABIFunctionNotFound")
    ELSE c

get_function(s, path, address, mainnet, d) ==
    LET parts == split(path) IN
    IF Len(parts) # 2 THEN Err(s, "InvalidPath")
    ELSE LET name == parts[1]
             a == IF address = NoAddress
                  THEN get_address_by_name(s, name, d - 1)
                  ELSE Ok(s, address)
         IN IF ~a.ok THEN a
            ELSE functions(assemble_contract(a.s, <<name, a.v, mainnet>>, d - 1),
                           parts[2])

estimate_gas_for_call(s, path, d) ==
    LET parts == split(path) IN
    IF Len(parts) # 2 THEN Err(s, "InvalidPath")
    ELSE functions(get_contract_by_name(s, parts[1], d - 1), parts[2])

RECURSIVE Seed(_, _)
\* for name, address in cfg[...].items(): self.addresses[name] = address
Seed(reg, m) ==
    IF m = <<>> THEN [ok |-> TRUE, reg |-> reg]
    ELSE LET w == RegistrySet(reg, m[1][1], m[1][2])
         IN IF ~w.ok THEN w ELSE Seed(w.reg, Tail(m))

\* a flush that forgets the address cache
flush_KeepsAddressCache(s, mcOk) ==
    LET w == Seed(EmptyBidict, cfg.manual)
        s1 == [s EXCEPT !.cc = <<>>, !.bc = <<>>, !.reg = w.reg,
                        !.mc = IF mcOk THEN "Multicall" ELSE "None"]
    IN IF w.ok THEN Ok(s1, 0) ELSE Err(s1, "ValueDuplicationError")

\* a flush that gives up, before seeding, when Multicall cannot be constructed
flush_AbortsOnMulticallFailure(s, mcOk) ==
    LET w == IF mcOk THEN Seed(EmptyBidict, cfg.manual) ELSE [ok |-> TRUE, reg |-> EmptyBidict]
        s1 == [s EXCEPT !.cc = <<>>, !.bc = <<>>, !.ac = <<>>, !.reg = w.reg,
                        !.mc = IF mcOk THEN "Multicall" ELSE "None"]
    IN IF w.ok THEN Ok(s1, 0) ELSE Err(s1, "ValueDuplicationError")

\* mcOk: whether Multicall(w3.eth) could be constructed
flush(s, mcOk) ==
    LET w == Seed(EmptyBidict, cfg.manual)
        s1 == [s EXCEPT !.cc = <<>>, !.bc = <<>>, !.ac = <<>>, !.reg = w.reg,
                        !.mc = IF mcOk THEN "Multicall" ELSE "None"]
    IN IF w.ok THEN Ok(s1, 0) ELSE Err(s1, "ValueDuplicationError")

\* ------------------------------------------------------------ revert reasons
\* the mined transactions handed to get_revert_reason
Transaction(i) ==
    [hash |-> i, from |-> 1, to |-> 2, input |-> i, gas |-> 21000, gasPrice |-> 7,
     value |-> i, blockNumber |-> 100 + i]
Transactions == {Transaction(i) : i \in 1..6}
\* what the node answers to eth_call of the request at the block: the replay
\* of each mined transaction at its own block ends in its own way, and at any
\* other block, or with any other parameter, the call goes through
EthCall(request, block) ==
    IF \/ block # 100 + request.data
       \/ request # [from |-> 1, to |-> 2, data |-> request.data, gas |-> 21000,
                     gasPrice |-> 7, value |-> request.data]
    THEN [kind |-> "return", args |-> <<>>]
    ELSE CASE request.data = 2 ->
                [kind |-> "ContractLogicError", args |-> <<"Insufficient balance">>]
           [] request.data = 3 ->
                [kind |-> "ContractLogicError",
                 args |-> <<"execution reverted", "Insufficient balance">>]
           [] request.data = 4 -> [kind |-> "ValueError", args |-> <<[code |-> -32000]>>]
           [] request.data = 5 -> [kind |-> "ValueError", args |-> <<[code |-> -32603]>>]
           [] request.data = 6 -> [kind |-> "ConnectionError", args |-> <<>>]
           [] OTHER -> [kind |-> "return", args |-> <<>>]
\* what get_revert_reason returns when the replay goes through (None)
NoReason == "None"
RECURSIVE join(_)
\* ", ".join(args)
join(args) ==
    IF args = <<>> THEN ""
    ELSE IF Len(args) = 1 THEN args[1]
    ELSE args[1] \o ", " \o join(Tail(args))

\* the request built from tnx and the block it is replayed at
Replayed(tnx, block) ==
    <<[from |-> tnx.from, to |-> tnx.to, data |-> tnx.input, gas |-> tnx.gas,
       gasPrice |-> tnx.gasPrice, value |-> tnx.value], block>>

\* a replay at the block after the one the transaction was mined in
get_revert_reason_NextBlock(s, tnx) ==
    LET call == Replayed(tnx, tnx.blockNumber + 1)
        err == EthCall(call[1], call[2])
        s1 == [s EXCEPT !.ethCalls = Append(@, call)]
    IN CASE err.kind = "ContractLogicError" -> Ok(s1, join(err.args))
         [] err.kind = "ValueError" ->
              Ok(s1, IF err.args[1].code = -32000 THEN "Out of gas" ELSE "Hidden Error")
         [] err.kind = "return" -> Ok(s1, NoReason)
         [] OTHER -> Err(s1, err.kind)

get_revert_reason(s, tnx) ==
    LET call == Replayed(tnx, tnx.blockNumber)
        err == EthCall(call[1], call[2])
        s1 == [s EXCEPT !.ethCalls = Append(@, call)]
    IN CASE err.kind = "ContractLogicError" -> Ok(s1, join(err.args))
         [] err.kind = "ValueError" ->
              Ok(s1, IF err.args[1].code = -32000 THEN "Out of gas" ELSE "Hidden Error")
         [] err.kind = "return" -> Ok(s1, NoReason)
         [] OTHER -> Err(s1, err.kind)

\* ------------------------------------------------------- sequential handlers
\* the arguments the handlers are called with
Paths == {<<"a", ".", "f">>, <<"invalid">>, <<"a", ".", "b", ".", "c">>,
          <<"a", ".">>, <<".", "f">>, <<".">>}
\* <<path, address, mainnet>>: every path without an address on the primary
\* network, and the valid path with a given address and on mainnet
CallArgs == {<<path, NoAddress, FALSE>> : path \in Paths}
            \cup {<<<<"a", ".", "f">>, NoAddress, TRUE>>,
                  <<<<"a", ".", "f">>, 3, FALSE>>, <<<<"a", ".", "f">>, 3, TRUE>>}
AssembleArgs == {<<"a", 3>>, <<"a", 3, FALSE>>, <<"a", 3, TRUE>>}

\* what a running call has done so far: chain reads, handles built, registry
\* writes, the returns and raises of get_address_by_name, and the eth_call
\* replays
NoLog == [getAddress |-> <<>>, getString |-> <<>>, built |-> <<>>, written |-> <<>>,
          rets |-> <<>>, fails |-> <<>>, ethCalls |-> <<>>]
State(ac, bc, cc, reg, mc) ==
    [ac |-> ac, bc |-> bc, cc |-> cc, reg |-> reg, mc |-> mc] @@ NoLog
Cur == State(ADDRESS_CACHE, ABI_CACHE, CONTRACT_CACHE, addresses, multicall)

Count(seq, x) == Cardinality({i \in DOMAIN seq : seq[i] = x})

\* the call returns (or raises) r: its effects and the history of the run
Commit(r) ==
    /\ ADDRESS_CACHE' = r.s.ac
    /\ ABI_CACHE' = r.s.bc
    /\ CONTRACT_CACHE' = r.s.cc
    /\ addresses' = r.s.reg
    /\ multicall' = r.s.mc
    /\ looked' = looked \cup (Range(r.s.getAddress) \cap Names)
    /\ reread' = reread \cup {n \in Range(r.s.getAddress) \cap Names : returned[n] # {}}
    /\ returned' = [n \in Names |->
                      returned[n] \cup {p[2] : p \in {q \in Range(r.s.rets) : q[1] = n}}]
    /\ stale' = stale \ ({p[1] : p \in Range(r.s.rets)} \cup Range(r.s.fails))
    /\ UNCHANGED <<envVars, threadVars>>

GetAddressByName(name) ==
    Commit(get_address_by_name(Cur, name, RecursionLimit))

GetAbiByName(name) ==
    Commit(get_abi_by_name(Cur, name, RecursionLimit))

AssembleContract(args) ==
    Commit(assemble_contract(Cur, args, RecursionLimit))

GetContractByName(name) ==
    Commit(get_contract_by_name(Cur, name, RecursionLimit))

GetContractByAddress(address) ==
    Commit(get_contract_by_address(Cur, address, RecursionLimit))

\* call = get_function(...).call(block_identifier=block); the read-only chain
\* call itself changes nothing here
Call(path, address, mainnet) ==
    Commit(get_function(Cur, path, address, mainnet, RecursionLimit))

EstimateGasForCall(path) ==
    Commit(estimate_gas_for_call(Cur, path, RecursionLimit))

GetRevertReason(tnx) ==
    Commit(get_revert_reason(Cur, tnx))

Flush(mcOk) ==
    LET r == flush(Cur, mcOk) IN
    /\ ADDRESS_CACHE' = r.s.ac
    /\ ABI_CACHE' = r.s.bc
    /\ CONTRACT_CACHE' = r.s.cc
    /\ addresses' = r.s.reg
    /\ multicall' = r.s.mc
    /\ looked' = {}
    /\ reread' = {}
    /\ stale' = stale \cup {n \in Names : returned[n] # {}}
    /\ returned' = [n \in Names |-> {}]
    /\ UNCHANGED <<envVars, threadVars>>

\* the protocol re-points a name to another address
ChainUpdate(name, address) ==
    /\ chainAddr[name] # address
    /\ chainAddr' = [chainAddr EXCEPT ![name] = address]
    /\ UNCHANGED <<progVars, cfg, ghostVars, threadVars>>

Threads == {1, 2}

\* rp = RocketPool(): __init__ leaves what its flush() leaves
Init ==
    /\ cfg \in Configs
    /\ chainAddr \in {f \in [ChainNames -> 0..MaxAddr] : f["b"] = 2}
    /\ \E mcOk \in BOOLEAN :
         LET r == flush(State(<<>>, <<>>, <<>>, EmptyBidict, "None"), mcOk) IN
         /\ r.ok
         /\ ADDRESS_CACHE = r.s.ac
         /\ ABI_CACHE = r.s.bc
         /\ CONTRACT_CACHE = r.s.cc
         /\ addresses = r.s.reg
         /\ multicall = r.s.mc
    /\ returned = [n \in Names |-> {}]
    /\ looked = {}
    /\ reread = {}
    /\ stale = {}
    /\ pc = [t \in Threads |-> "idle"]
    /\ loc = [t \in Threads |-> [name |-> "", v |-> 0, i |-> 0, mcOk |-> FALSE,
                                 pre |-> FALSE, torn |-> FALSE]]
    /\ obs = {}

Next ==
    \/ \E name \in Names : GetAddressByName(name)
    \/ \E name \in Names : GetAbiByName(name)
    \/ \E args \in AssembleArgs : AssembleContract(args)
    \/ \E name \in Names : GetContractByName(name)
    \/ \E address \in Addresses : GetContractByAddress(address)
    \/ \E c \in CallArgs : Call(c[1], c[2], c[3])
    \/ \E path \in Paths : EstimateGasForCall(path)
    \/ \E tnx \in Transactions : GetRevertReason(tnx)
    \/ \E mcOk \in BOOLEAN : Flush(mcOk)
    \/ \E address \in 0..MaxAddr : ChainUpdate("a", address)

Spec == Init /\ [][Next]_vars

\* ------------------------------------------------ handlers run by threads
\* Each thread runs one handler at a time, one statement per step; nothing in
\* the source serialises the threads.
ConcNames == {"a"}
Idle == [name |-> "", v |-> 0, i |-> 0, mcOk |-> FALSE, pre |-> FALSE, torn |-> FALSE]
FlushPcs == {"f_contract", "f_abi", "f_address", "f_registry", "f_multicall", "f_seed"}
\* some flush has cleared a cache and has not yet re-seeded the registry
InFlush == \E t \in Threads : pc[t] \in FlushPcs \ {"f_contract"}
\* positions at which get_address_by_name holds an address it has already read
Holding == {"ua_set", "ga_store"}

Goto(t, p) == pc' = [pc EXCEPT ![t] = p]
Finish(t) == pc' = [pc EXCEPT ![t] = "idle"] /\ loc' = [loc EXCEPT ![t] = Idle]
\* the thread reads or writes the shared caches or registry at this step
Touch(t, l) == [l EXCEPT !.torn = @ \/ InFlush]

StartGetAddress(t, name) ==
    /\ pc[t] = "idle"
    /\ Goto(t, "ga_lookup")
    /\ loc' = [loc EXCEPT ![t] = [Idle EXCEPT !.name = name]]
    /\ UNCHANGED <<progVars, envVars, ghostVars, obs>>

\* cached(): return cache[k], or fall through on KeyError
GaLookup(t) ==
    /\ pc[t] = "ga_lookup"
    /\ IF CacheHas(ADDRESS_CACHE, hashkey(<<loc[t].name>>))
       THEN /\ Finish(t)
            /\ returned' = [returned EXCEPT ![loc[t].name] =
                              @ \cup {CacheVal(ADDRESS_CACHE, hashkey(<<loc[t].name>>))}]
       ELSE /\ Goto(t, "ga_check")
            /\ loc' = [loc EXCEPT ![t] = Touch(t, @)]
            /\ UNCHANGED returned
    /\ UNCHANGED <<progVars, envVars, looked, reread, stale, obs>>

\* if name in self.addresses
GaCheck(t) ==
    /\ pc[t] = "ga_check"
    /\ Goto(t, IF RegistryHas(addresses, loc[t].name) THEN "ga_read" ELSE "ua_storage")
    /\ loc' = [loc EXCEPT ![t] = Touch(t, @)]
    /\ UNCHANGED <<progVars, envVars, ghostVars, obs>>

\* return self.addresses[name]: KeyError when the registry was replaced meanwhile
GaRead(t) ==
    /\ pc[t] = "ga_read"
    /\ IF RegistryHas(addresses, loc[t].name)
       THEN /\ Goto(t, "ga_store")
            /\ loc' = [loc EXCEPT ![t] = [Touch(t, @) EXCEPT !.v = addresses.fwd[loc[t].name]]]
       ELSE Finish(t)
    /\ UNCHANGED <<progVars, envVars, ghostVars, obs>>

\* self.get_contract_by_name("rocketStorage")
UaStorage(t) ==
    /\ pc[t] = "ua_storage"
    /\ LET c == get_contract_by_name(Cur, StorageName, RecursionLimit) IN
       /\ ADDRESS_CACHE' = c.s.ac
       /\ ABI_CACHE' = c.s.bc
       /\ CONTRACT_CACHE' = c.s.cc
       /\ IF c.ok
          THEN Goto(t, "ua_call") /\ loc' = [loc EXCEPT ![t] = Touch(t, @)]
          ELSE Finish(t)
    /\ UNCHANGED <<addresses, multicall, envVars, ghostVars, obs>>

\* .functions.getAddress(sha3).call()
UaCall(t) ==
    /\ pc[t] = "ua_call"
    /\ Goto(t, "ua_set")
    /\ loc' = [loc EXCEPT ![t].v =
                 StorageGetAddress(soliditySha3("contract.address", loc[t].name))]
    /\ looked' = looked \cup {loc[t].name}
    /\ reread' = IF returned[loc[t].name] # {} THEN reread \cup {loc[t].name} ELSE reread
    /\ UNCHANGED <<progVars, envVars, returned, stale, obs>>

\* the zero check and self.addresses[name] = address
UaSet(t) ==
    /\ pc[t] = "ua_set"
    /\ LET w == RegistrySet(addresses, loc[t].name, loc[t].v) IN
       IF IsZeroAddress(loc[t].v) \/ ~w.ok
       THEN Finish(t) /\ UNCHANGED <<addresses, obs>>
       ELSE /\ addresses' = w.reg
            /\ Goto(t, "ga_store")
            /\ loc' = [loc EXCEPT ![t] = Touch(t, @)]
            /\ obs' = IF loc[t].pre THEN obs \cup {"registry"} ELSE obs
    /\ UNCHANGED <<ADDRESS_CACHE, ABI_CACHE, CONTRACT_CACHE, multicall, envVars, ghostVars>>

\* cached(): cache[k] = v; return v
GaStore(t) ==
    /\ pc[t] = "ga_store"
    /\ ADDRESS_CACHE' = CachePut(ADDRESS_CACHE, hashkey(<<loc[t].name>>), loc[t].v)
    /\ returned' = [returned EXCEPT ![loc[t].name] = @ \cup {loc[t].v}]
    /\ obs' = IF loc[t].pre THEN obs \cup {"address"} ELSE obs
    /\ Finish(t)
    /\ UNCHANGED <<ABI_CACHE, CONTRACT_CACHE, addresses, multicall, envVars, looked, reread,
                 stale>>

\* flush() is entered: every address a running resolution already holds was
\* read before this flush
StartFlush(t, mcOk) ==
    /\ pc[t] = "idle"
    /\ pc' = [pc EXCEPT ![t] = "f_contract"]
    /\ loc' = [u \in Threads |->
                 IF u = t THEN [Idle EXCEPT !.mcOk = mcOk]
                 ELSE IF pc[u] \in Holding THEN [loc[u] EXCEPT !.pre = TRUE]
                 ELSE loc[u]]
    /\ UNCHANGED <<progVars, envVars, ghostVars, obs>>

\* self.CONTRACT_CACHE.clear()
FlushContract(t) ==
    /\ pc[t] = "f_contract"
    /\ CONTRACT_CACHE' = <<>>
    /\ Goto(t, "f_abi")
    /\ UNCHANGED <<ADDRESS_CACHE, ABI_CACHE, addresses, multicall, envVars, ghostVars, loc, obs>>

\* self.ABI_CACHE.clear()
FlushAbi(t) ==
    /\ pc[t] = "f_abi"
    /\ ABI_CACHE' = <<>>
    /\ Goto(t, "f_address")
    /\ UNCHANGED <<ADDRESS_CACHE, CONTRACT_CACHE, addresses, multicall, envVars, ghostVars,
                   loc, obs>>

\* self.ADDRESS_CACHE.clear()
FlushAddress(t) ==
    /\ pc[t] = "f_address"
    /\ ADDRESS_CACHE' = <<>>
    /\ obs' = obs \ {"address"}
    /\ Goto(t, "f_registry")
    /\ UNCHANGED <<ABI_CACHE, CONTRACT_CACHE, addresses, multicall, envVars, ghostVars, loc>>

\* self.addresses = bidict()
FlushRegistry(t) ==
    /\ pc[t] = "f_registry"
    /\ addresses' = EmptyBidict
    /\ obs' = obs \ {"registry"}
    /\ Goto(t, "f_multicall")
    /\ UNCHANGED <<ADDRESS_CACHE, ABI_CACHE, CONTRACT_CACHE, multicall, envVars, ghostVars, loc>>

\* self.multicall = Multicall(w3.eth), or None when that raises
FlushMulticall(t) ==
    /\ pc[t] = "f_multicall"
    /\ multicall' = IF loc[t].mcOk THEN "Multicall" ELSE "None"
    /\ Goto(t, "f_seed")
    /\ loc' = [loc EXCEPT ![t].i = 1]
    /\ UNCHANGED <<ADDRESS_CACHE, ABI_CACHE, CONTRACT_CACHE, addresses, envVars, ghostVars, obs>>

\* one round of the seeding loop, or its end
FlushSeed(t) ==
    /\ pc[t] = "f_seed"
    /\ IF loc[t].i > Len(cfg.manual)
       THEN /\ Finish(t)
            /\ UNCHANGED addresses
            /\ looked' = {}
            /\ reread' = {}
            /\ stale' = stale \cup {n \in Names : returned[n] # {}}
            /\ returned' = [n \in Names |-> {}]
       ELSE LET w == RegistrySet(addresses, cfg.manual[loc[t].i][1], cfg.manual[loc[t].i][2]) IN
            /\ addresses' = w.reg
            /\ IF w.ok THEN loc' = [loc EXCEPT ![t].i = @ + 1] /\ UNCHANGED pc
                       ELSE Finish(t)
            /\ UNCHANGED ghostVars
    /\ UNCHANGED <<ADDRESS_CACHE, ABI_CACHE, CONTRACT_CACHE, multicall, envVars, obs>>

ConcNext ==
    \E t \in Threads :
        \/ \E name \in ConcNames : StartGetAddress(t, name)
        \/ GaLookup(t)
        \/ GaCheck(t)
        \/ GaRead(t)
        \/ UaStorage(t)
        \/ UaCall(t)
        \/ UaSet(t)
        \/ GaStore(t)
        \/ \E mcOk \in BOOLEAN : StartFlush(t, mcOk)
        \/ FlushContract(t)
        \/ FlushAbi(t)
        \/ FlushAddress(t)
        \/ FlushRegistry(t)
        \/ FlushMulticall(t)
        \/ FlushSeed(t)

ConcSpec == Init /\ [][ConcNext]_vars

\* --------------------------------------------------------------- properties
\* P holds of the outcome of every handler call that can be made on state s
Overrides == ManualNames(cfg.manual)
\* the registry that holds exactly the configured overrides
SeededRegistry ==
    [fwd |-> ManualMap(cfg.manual),
     inv |-> [a \in {cfg.manual[i][2] : i \in DOMAIN cfg.manual} |->
                (CHOOSE p \in Range(cfg.manual) : p[2] = a)[1]]]
CachesEmpty(ac, bc, cc) == ac = <<>> /\ bc = <<>> /\ cc = <<>>
ChainReads(r, name) == Count(r.s.getAddress, name)
Resolve(name) == get_address_by_name(Cur, name, RecursionLimit)

\* C1 as stated: between two flushes every successful get_address_by_name(name)
\* returns the same address and the chain is asked for the name's address at
\* most once in total: no call reads the address of a name that was read since
\* the last flush.
C1_LookupAtMostOnce ==
    /\ \A name \in Names : Cardinality(returned[name]) <= 1
    /\ \A name \in looked : ChainReads(Resolve(name), name) = 0

\* C1 amended: between two flushes every successful get_address_by_name(name)
\* returns the same address, and once one call has succeeded no handler reads
\* the name's address from the chain again, whatever was resolved or evicted in
\* between; a read that ends in an error is repeated by the next call.
C1_LookupOnceResolved ==
    /\ \A name \in Names : Cardinality(returned[name]) <= 1
    /\ reread = {}

\* "a" was resolved, its cache entry has been evicted, and the chain now holds
\* another address for it
C1_Witness ==
    /\ returned["a"] # {}
    /\ ~CacheHas(ADDRESS_CACHE, <<"a">>)
    /\ Len(ADDRESS_CACHE) = MaxSize
    /\ chainAddr["a"] \notin returned["a"] \cup {0}
    /\ "a" \notin Overrides
    /\ Resolve("a").ok

FlushLeaves(r) ==
    /\ r.ok
    /\ CachesEmpty(r.s.ac, r.s.bc, r.s.cc)
    /\ r.s.reg = SeededRegistry

\* C2: from every reachable state a flush returns with the three caches empty
\* and the registry holding exactly the configured overrides, and the call that
\* next asks for a name that was resolved before the flush and is not an
\* override reads its address from the chain.
C2_FlushResets ==
    /\ \A mcOk \in BOOLEAN : FlushLeaves(flush(Cur, mcOk))
    /\ \A name \in stale \ Overrides :
         name \notin looked /\ ChainReads(Resolve(name), name) = 1

\* a flush has wiped a resolved name that is not an override, and other names
\* have been resolved since
C2_Witness ==
    /\ stale \ Overrides # {}
    /\ ADDRESS_CACHE # <<>>
    /\ CONTRACT_CACHE # <<>>
    /\ looked # {}

\* C3: the registry is a bijection in every reachable state: nameOf(addressOf(n))
\* = n for every registered name and addressOf(nameOf(a)) = a for every
\* registered address.
C3_Bijection ==
    /\ \A name \in DOMAIN addresses.fwd :
         get_name_by_address(addresses, addresses.fwd[name]) = name
    /\ \A address \in DOMAIN addresses.inv :
         /\ RegistryHas(addresses, addresses.inv[address])
         /\ addresses.fwd[addresses.inv[address]] = address

\* a resolved name sits next to the override, and the chain gives "a" the
\* address the registry holds for "b"
C3_Witness ==
    /\ RegistryHas(addresses, "b")
    /\ RegistryHas(addresses, StorageName)
    /\ chainAddr["a"] = addresses.fwd["b"]
    /\ "a" \in looked

\* the call read the zero address for name from the chain
ZeroRead(r, name) == ChainReads(r, name) = 1 /\ IsZeroAddress(chainAddr[name])

\* C4: a get_address_by_name(name) for which the chain returns the zero address
\* fails with the not-found error and leaves the registry exactly as it was.
C4_NotFoundKeepsRegistry ==
    \A name \in ChainNames :
        ZeroRead(Resolve(name), name)
        => /\ ~Resolve(name).ok
           /\ Resolve(name).err = "NotFound"
           /\ Resolve(name).s.reg = addresses

\* the chain was asked for "a", holds the zero address for it, and the next
\* call asks again and fails, with other names registered
C4_Witness ==
    /\ "a" \in looked
    /\ chainAddr["a"] = 0
    /\ ZeroRead(Resolve("a"), "a")
    /\ ~RegistryHas(addresses, "a")
    /\ RegistryHas(addresses, "b")

\* C5 as stated: whenever the chain holds a non-zero address for a name, the
\* insertion made by get_address_by_name(name) succeeds, and afterwards
\* addressOf(name) is that address and nameOf(address) is the name.
C5_SetAlwaysSucceeds ==
    \A name \in ChainNames :
        (ChainReads(Resolve(name), name) = 1 /\ ~IsZeroAddress(chainAddr[name]))
        => /\ Resolve(name).ok
           /\ RegistryHas(Resolve(name).s.reg, name)
           /\ Resolve(name).s.reg.fwd[name] = chainAddr[name]
           /\ get_name_by_address(Resolve(name).s.reg, chainAddr[name]) = name

Net(args) == IF Len(args) >= 3 /\ args[3] THEN "mainnet" ELSE "primary"
BoundAsAsked(args) ==
    LET r == assemble_contract(Cur, args, RecursionLimit)
    IN r.ok => r.v.net = Net(args) /\ r.v.address = args[2]

\* C6: every cached handle is bound to the network its key asks for, and every
\* assemble_contract call, whatever is cached at the time, returns a handle
\* bound to the requested network and address.
C6_NetworkKeyed ==
    /\ \A i \in DOMAIN CONTRACT_CACHE : CONTRACT_CACHE[i].v.net = Net(CONTRACT_CACHE[i].k)
    /\ \A args \in AssembleArgs : BoundAsAsked(args)

\* the primary and the mainnet handle of the same name and address are cached
\* side by side
C6_Witness ==
    /\ CacheHas(CONTRACT_CACHE, <<"a", 3, FALSE>>)
    /\ CacheHas(CONTRACT_CACHE, <<"a", 3, TRUE>>)
    /\ CacheVal(CONTRACT_CACHE, <<"a", 3, FALSE>>).net = "primary"
    /\ CacheVal(CONTRACT_CACHE, <<"a", 3, TRUE>>).net = "mainnet"

\* the two calls end the same way: same value or exception, same caches and
\* registry, same chain calls
Same(r1, r2) ==
    /\ r1.ok = r2.ok /\ r1.err = r2.err /\ (r1.ok => r1.v = r2.v)
    /\ r1.s.ac = r2.s.ac /\ r1.s.bc = r2.s.bc /\ r1.s.cc = r2.s.cc /\ r1.s.reg = r2.s.reg
    /\ r1.s.getAddress = r2.s.getAddress /\ r1.s.getString = r2.s.getString
\* every resolveAddress and every call ends the same way on s1 as on s2
SameOutcomes(s1, s2) ==
    /\ \A name \in Names : Same(get_address_by_name(s1, name, RecursionLimit),
                                get_address_by_name(s2, name, RecursionLimit))
    /\ \A c \in CallArgs : Same(get_function(s1, c[1], c[2], c[3], RecursionLimit),
                                get_function(s2, c[1], c[2], c[3], RecursionLimit))

\* C10: from every reachable state a flush in which Multicall cannot be
\* constructed returns normally with multicall unset, the caches empty and the
\* registry holding exactly the overrides, it differs from the flush in which
\* the construction succeeded in the multicall field only, and in every state
\* reached afterwards every resolveAddress and every call ends as it would with
\* multicall set.
C10_MulticallFailureHarmless ==
    /\ FlushLeaves(flush(Cur, FALSE))
    /\ flush(Cur, FALSE).s.mc = "None"
    /\ flush(Cur, FALSE).s = [flush(Cur, TRUE).s EXCEPT !.mc = "None"]
    /\ multicall = "None" => SameOutcomes(Cur, [Cur EXCEPT !.mc = "Multicall"])

\* after a flush that wiped a resolved name and could not construct Multicall,
\* a name has been resolved from the chain
C10_Witness ==
    /\ multicall = "None"
    /\ stale # {}
    /\ \E name \in (ChainNames \ Overrides) \cap looked : returned[name] # {}

\* C7 as stated: callers that ask concurrently for the same uncached name share
\* one chain read: no two running calls have each read the name's address from
\* the chain, and all of them return the same address.
C7_SingleFlight ==
    /\ \A t1, t2 \in Threads :
         (t1 # t2 /\ pc[t1] = "ua_set" /\ pc[t2] = "ua_set") => loc[t1].name # loc[t2].name
    /\ \A name \in Names : Cardinality(returned[name]) <= 1

\* C8 as stated: once the flushes and the resolutions that ran beside them have
\* all finished, neither the address cache nor the registry holds an address
\* that a resolution read before the flush.
C8_NoStaleInsert ==
    (\A t \in Threads : pc[t] = "idle") => obs = {}

\* C9 as stated: no step of a resolution touches the caches or the registry
\* between the first and the last step of a flush, and a resolution of an
\* overridden name never leaves for the chain.
C9_FlushAtomic ==
    \A t \in Threads :
        /\ ~loc[t].torn
        /\ pc[t] \in {"ua_storage", "ua_call", "ua_set"} => loc[t].name \notin Overrides

\* ------------------------------------------------------------- eviction
\* c2 is c after some insertions of missing keys: the n oldest keys of c are
\* gone, the others keep their places in the order, keys leave only a cache
\* that ends up full, and no key is held twice.
Fifo(c, c2) ==
    \E n \in 0..Len(c) :
        /\ Len(c2) >= Len(c) - n
        /\ Len(c2) <= MaxSize
        /\ \A i \in 1..(Len(c) - n) : c2[i] = c[n + i]
        /\ \A i, j \in DOMAIN c2 : c2[i].k = c2[j].k => i = j
        /\ n > 0 => Len(c2) = MaxSize

\* the keys tried on each cache
ProbeKeys == {<<name>> : name \in Names} \cup AssembleArgs
\* storing a missing key k in the full cache c evicts exactly the oldest key of
\* c and keeps every other key, its value and its place; in a cache that is not
\* full nothing is evicted
EvictsOldest(c, k) ==
    LET c2 == CachePut(c, k, 0) IN
    /\ CacheHas(c2, k)
    /\ c2[Len(c2)].k = k
    /\ IF Len(c) = MaxSize
       THEN /\ Len(c2) = MaxSize
            /\ ~CacheHas(c2, c[1].k)
            /\ \A i \in 2..Len(c) : c2[i - 1] = c[i]
       ELSE \A i \in 1..Len(c) : c2[i] = c[i]

\* storing any missing key in c evicts as a FIFO cache does
Oldest(c) == \A k \in ProbeKeys : ~CacheHas(c, k) => EvictsOldest(c, k)
\* a call that finds its key cached leaves the cache c as it is; any call
\* turns c into c2 by insertions at the end and evictions at the front
ReadKeepsOrder(c, k, c2) == Fifo(c, c2) /\ (CacheHas(c, k) => c2 = c)

\* C11: each of the three caches keeps its keys in insertion order whatever is
\* read: in every reachable state, storing a missing key in a full cache
\* evicts exactly the earliest-inserted key and keeps all others, a call of a
\* cached function whose key is present leaves the order untouched, and any
\* such call only adds keys at the end and drops keys from the front.
C11_FifoEviction ==
    /\ Oldest(ADDRESS_CACHE) /\ Oldest(ABI_CACHE) /\ Oldest(CONTRACT_CACHE)
    /\ \A name \in Names :
         ReadKeepsOrder(ADDRESS_CACHE, hashkey(<<name>>),
                        get_address_by_name(Cur, name, RecursionLimit).s.ac)
    /\ \A name \in Names :
         ReadKeepsOrder(ABI_CACHE, hashkey(<<name>>),
                        get_abi_by_name(Cur, name, RecursionLimit).s.bc)
    /\ \A args \in AssembleArgs \cup {CONTRACT_CACHE[i].k : i \in DOMAIN CONTRACT_CACHE} :
         ReadKeepsOrder(CONTRACT_CACHE, hashkey(args),
                        assemble_contract(Cur, args, RecursionLimit).s.cc)

\* the storage address was cached first and read by every later resolution,
\* and it is the key that left when the third name came
C11_Witness ==
    /\ Len(ADDRESS_CACHE) = MaxSize
    /\ returned[StorageName] # {}
    /\ ~CacheHas(ADDRESS_CACHE, <<StorageName>>)
    /\ CacheHas(ADDRESS_CACHE, <<"a">>)
    /\ CacheHas(ADDRESS_CACHE, <<"b">>)

\* ---------------------------------------------------------------- paths
\* the call raised the invalid-path exception and did nothing else
Rejected(r) == ~r.ok /\ r.err = "InvalidPath" /\ r.s = Cur
\* get_function, with and without an address, on either network, and
\* estimate_gas_for_call all reject the path before doing anything
RejectedEverywhere(path) ==
    /\ \A address \in {NoAddress, 3} : \A mainnet \in BOOLEAN :
         Rejected(get_function(Cur, path, address, mainnet, RecursionLimit))
    /\ Rejected(estimate_gas_for_call(Cur, path, RecursionLimit))
\* the text before and after the only "." of a path
Before(path) == IF path[1] = "." THEN "" ELSE path[1]
After(path) == IF path[Len(path)] = "." THEN "" ELSE path[Len(path)]

\* C12: a path with exactly one "." splits into (name, function) and is not
\* rejected as invalid; a path with no "." or with two or more is rejected by
\* get_function (hence call) and estimate_gas_for_call with the invalid-path
\* error, and the rejection leaves the caches and the registry untouched and
\* makes no chain call.
C12_PathParsing ==
    \A path \in Paths :
        IF Cardinality(Dots(path)) = 1
        THEN /\ split(path) = <<Before(path), After(path)>>
             /\ get_function(Cur, path, NoAddress, FALSE, RecursionLimit).err # "InvalidPath"
             /\ estimate_gas_for_call(Cur, path, RecursionLimit).err # "InvalidPath"
        ELSE RejectedEverywhere(path)

\* handles are cached, "a.f" resolves, and "invalid" and "a.b.c" are rejected
C12_Witness ==
    /\ CONTRACT_CACHE # <<>>
    /\ ADDRESS_CACHE # <<>>
    /\ get_function(Cur, <<"a", ".", "f">>, NoAddress, FALSE, RecursionLimit).ok
    /\ Rejected(get_function(Cur, <<"invalid">>, NoAddress, FALSE, RecursionLimit))
    /\ Rejected(estimate_gas_for_call(Cur, <<"a", ".", "b", ".", "c">>, RecursionLimit))

\* C18 as stated: the paths "a.", ".f" and "." are rejected with the
\* invalid-path error by get_function (hence call) and estimate_gas_for_call
\* before any resolution is attempted.
C18_EmptyPartRejected ==
    \A path \in {<<"a", ".">>, <<".", "f">>, <<".">>} : RejectedEverywhere(path)

\* -------------------------------------------------------- revert reasons
\* the call left the caches, the registry and multicall alone and made one
\* eth_call, with the transaction's own parameters at its own block
ReplaysExactly(r, tnx) ==
    /\ [r.s EXCEPT !.ethCalls = <<>>] = Cur
    /\ r.s.ethCalls =
         <<<<[from |-> tnx.from, to |-> tnx.to, data |-> tnx.input, gas |-> tnx.gas,
              gasPrice |-> tnx.gasPrice, value |-> tnx.value], tnx.blockNumber>>>>

\* C13: get_revert_reason(tnx) replays the transaction's own parameters at
\* the block it was mined in, returns None when the replay goes through, the
\* revert messages joined by ", " for a ContractLogicError ("Insufficient
\* balance" for that single message), "Out of gas" for a ValueError with code
\* -32000 and "Hidden Error" for one with any other code, raises in none of
\* these cases and changes neither the caches nor the registry.
C13_RevertReason ==
    /\ \A tnx \in Transactions :
         ReplaysExactly(get_revert_reason(Cur, tnx), tnx)
    /\ \A i \in 1..5 : get_revert_reason(Cur, Transaction(i)).ok
    /\ get_revert_reason(Cur, Transaction(1)).v = NoReason
    /\ get_revert_reason(Cur, Transaction(2)).v = "Insufficient balance"
    /\ get_revert_reason(Cur, Transaction(3)).v = "execution reverted, Insufficient balance"
    /\ get_revert_reason(Cur, Transaction(4)).v = "Out of gas"
    /\ get_revert_reason(Cur, Transaction(5)).v = "Hidden Error"

\* with names resolved and handles cached, the replay of the reverted
\* transaction yields its message
C13_Witness ==
    /\ ADDRESS_CACHE # <<>>
    /\ CONTRACT_CACHE # <<>>
    /\ RegistryHas(addresses, "a")
    /\ get_revert_reason(Cur, Transaction(2)).v = "Insufficient balance"
    /\ get_revert_reason(Cur, Transaction(2)).s.ac = ADDRESS_CACHE

\* ------------------------------------------------------------- overrides
\* C14: in every reachable state get_address_by_name(name) of a name with a
\* manual override returns the configured address, asks the chain for no
\* address and leaves the registry as it is, whatever the chain holds for the
\* name.
C14_OverrideWins ==
    \A name \in Overrides :
        /\ Resolve(name).ok
        /\ Resolve(name).v = ManualMap(cfg.manual)[name]
        /\ Resolve(name).s.getAddress = <<>>
        /\ Resolve(name).s.reg = addresses

\* "a" is overridden, was resolved and evicted from the address cache, and the
\* chain holds another address for it
C14_Witness ==
    /\ "a" \in Overrides
    /\ returned["a"] # {}
    /\ ~CacheHas(ADDRESS_CACHE, <<"a">>)
    /\ Len(ADDRESS_CACHE) = MaxSize
    /\ chainAddr["a"] \notin {0, ManualMap(cfg.manual)["a"]}
    /\ Resolve("a").v = ManualMap(cfg.manual)["a"]

\* ------------------------------------------------------------------ ABIs
\* C15 as stated: get_abi_by_name(name) with the name not cached returns the
\* local ABI file of the name, asking the storage contract for nothing, when
\* there is such a file; otherwise it asks the chain, and when the stored
\* string is empty it fails with the not-found error and caches nothing
\* (wherever the storage contract itself can be resolved).
C15_LocalAbiFirst ==
    \A name \in Names :
        (/\ ~CacheHas(ABI_CACHE, hashkey(<<name>>))
         /\ get_contract_by_name(Cur, StorageName, RecursionLimit).ok) =>
            LET r == get_abi_by_name(Cur, name, RecursionLimit) IN
            IF LocalAbi(name) # NoAbi
            THEN r.ok /\ r.v = LocalAbi(name) /\ r.s.getString = <<>>
            ELSE (r.s.getString = <<name>> /\ StorageGetString(soliditySha3("contract.abi", name)) = 0)
                 => ~r.ok /\ r.err = "NotFound" /\ r.s.bc = ABI_CACHE

\* --------------------------------------------------- contracts by address
\* C16 as stated: get_contract_by_address(address) for an address the registry
\* has no name for fails with the not-found error, resolves no address, and
\* leaves the registry and the contract cache as they are.
C16_UnknownAddressNotFound ==
    \A address \in Addresses :
        get_name_by_address(addresses, address) = NoName =>
            LET r == get_contract_by_address(Cur, address, RecursionLimit) IN
            /\ ~r.ok
            /\ r.err = "NotFound"
            /\ r.s.rets = <<>> /\ r.s.fails = <<>> /\ r.s.getAddress = <<>>
            /\ r.s.reg = addresses
            /\ r.s.cc = CONTRACT_CACHE

\* ------------------------------------------------------ contract cache keys
\* the (name, address, network) a cache key stands for
Triple(args) == <<args[1], args[2], Net(args)>>

\* C17 as stated: the contract cache holds at most one handle for a (name,
\* address, network), and once get_contract_by_name("a") has returned,
\* get_contract_by_address of its address and get_function("a.f") on the
\* primary network find that handle cached and assemble nothing.
C17_OneEntryPerTriple ==
    /\ \A i, j \in DOMAIN CONTRACT_CACHE :
         Triple(CONTRACT_CACHE[i].k) = Triple(CONTRACT_CACHE[j].k) => i = j
    /\ LET r == get_contract_by_name(Cur, "a", RecursionLimit) IN
       r.ok =>
         /\ get_contract_by_address([r.s EXCEPT !.built = <<>>], r.v.address,
                                    RecursionLimit).s.built = <<>>
         /\ get_function([r.s EXCEPT !.built = <<>>], <<"a", ".", "f">>, NoAddress, FALSE,
                         RecursionLimit).s.built = <<>>

\* ------------------------------------------------- address cache, registry
\* C19: in every reachable state of sequential use every entry of the address
\* cache is in the registry, under the same name with the same address.
C19_CacheAgreesWithRegistry ==
    \A i \in DOMAIN ADDRESS_CACHE :
        /\ RegistryHas(addresses, ADDRESS_CACHE[i].k[1])
        /\ addresses.fwd[ADDRESS_CACHE[i].k[1]] = ADDRESS_CACHE[i].v

\* "a" was resolved from the chain and is cached, the chain has moved on to
\* another address since, and the cache has evicted rocketStorage
C19_Witness ==
    /\ "a" \notin Overrides
    /\ CacheHas(ADDRESS_CACHE, <<"a">>)
    /\ chainAddr["a"] # CacheVal(ADDRESS_CACHE, <<"a">>)
    /\ ~CacheHas(ADDRESS_CACHE, <<StorageName>>)
    /\ "a" \in looked

\* ---------------------------------------------------------- termination
\* the call ran out of frames: its recursion did not bottom out
Unbounded(r) == ~r.ok /\ r.err = "RecursionError"
\* rocketStorage has a manual address and a local ABI file
StorageConfigured == StorageName \in Overrides /\ StorageName \in cfg.files

\* with both in place no resolution runs out of frames
BottomsOutWhenConfigured ==
    StorageConfigured =>
        \A name \in Names :
            /\ ~Unbounded(get_address_by_name(Cur, name, RecursionLimit))
            /\ ~Unbounded(get_abi_by_name(Cur, name, RecursionLimit))

\* C20 as stated: get_address_by_name(name) and get_abi_by_name(name) end with
\* a value or an error of the resolution for every name, rocketStorage
\* included, whether or not rocketStorage has a manual address and a local ABI
\* file: the recursive resolution of rocketStorage bottoms out.
C20_ResolutionBottomsOut ==
    \A name \in Names :
        /\ ~Unbounded(get_address_by_name(Cur, name, RecursionLimit))
        /\ ~Unbounded(get_abi_by_name(Cur, name, RecursionLimit))

====
